---- MODULE Spec2Model ----
(***************************************************************************)
(* A model of check_value_up.py, the DART value-up plan checker: the       *)
(* identifier resolver and its cache file, the filing fetcher, the         *)
(* classifier, the seen-state file, the three sinks and run().             *)
(*                                                                         *)
(* Strings whose characters the code inspects (company references, cache   *)
(* keys, report titles, receipt numbers in the CSV ledger) are sequences   *)
(* of one-character strings.  A Hangul syllable is written as one          *)
(* character whose name is its romanisation ("gi" for U+AE30).             *)
(***************************************************************************)
EXTENDS Integers, Sequences, FiniteSets, TLC

(***************************************************************************)
(* str methods                                                             *)
(***************************************************************************)
UpperCase == <<"A","B","C","D","E","F","G","H","I","J","K","L","M",
               "N","O","P","Q","R","S","T","U","V","W","X","Y","Z">>
LowerCase == <<"a","b","c","d","e","f","g","h","i","j","k","l","m",
               "n","o","p","q","r","s","t","u","v","w","x","y","z">>
Whitespace == {" ", "\t", "\n"}
Digits == {"0","1","2","3","4","5","6","7","8","9"}

UpperSet == {UpperCase[i] : i \in 1..Len(UpperCase)}

LowerChar(c) ==
    IF c \in UpperSet
    THEN LowerCase[CHOOSE i \in 1..Len(UpperCase) : UpperCase[i] = c]
    ELSE c

\* s.lower()
Lower(s) == [i \in 1..Len(s) |-> LowerChar(s[i])]

\* s.strip()
Strip(s) ==
    IF \A i \in 1..Len(s) : s[i] \in Whitespace THEN <<>>
    ELSE LET lo == CHOOSE i \in 1..Len(s) :
                       s[i] \notin Whitespace /\ \A j \in 1..(i - 1) : s[j] \in Whitespace
             hi == CHOOSE i \in 1..Len(s) :
                       s[i] \notin Whitespace /\ \A j \in (i + 1)..Len(s) : s[j] \in Whitespace
         IN  SubSeq(s, lo, hi)

\* sub in s
Contains(sub, s) ==
    \E i \in 0..(Len(s) - Len(sub)) : SubSeq(s, i + 1, i + Len(sub)) = sub

(***************************************************************************)
(* Identifier resolver: get_corp_code and _search_corp_map                 *)
(***************************************************************************)
\* The value None.  No string of the model holds the character "None".
None == <<"None">>

\* The bulk directory (corpCode.xml): a sequence of <list> items, each with
\* the text of its corp_name, corp_code and stock_code children (<<>> when
\* the child is absent or empty, as `findtext(...) or ""` gives).
Item(name, code, stock) == [corp_name |-> name, corp_code |-> code, stock_code |-> stock]

\* corp_map is a dict, which keeps its keys in insertion order: a sequence
\* of <<key, code>> pairs with pairwise different keys.
Keys(corp_map) == {corp_map[i][1] : i \in 1..Len(corp_map)}

IndexOf(corp_map, key) == CHOOSE i \in 1..Len(corp_map) : corp_map[i][1] = key

\* corp_map[key]
DictGet(corp_map, key) == corp_map[IndexOf(corp_map, key)][2]

\* corp_map[key] = code: a key already present keeps its place.
DictSet(corp_map, key, code) ==
    IF key \in Keys(corp_map)
    THEN [corp_map EXCEPT ![IndexOf(corp_map, key)] = <<key, code>>]
    ELSE Append(corp_map, <<key, code>>)

\* Lines 101-108: the mapping built from the items of the bulk directory.
RECURSIVE BuildCorpMap(_, _)
BuildCorpMap(corp_map, items) ==
    IF items = <<>> THEN corp_map
    ELSE LET item     == Head(items)
             name     == Strip(item.corp_name)
             code     == Strip(item.corp_code)
             stock_cd == Strip(item.stock_code)
             next     == IF code # <<>>
                         THEN DictSet(DictSet(corp_map, Lower(name), code),
                                      Lower(stock_cd), code)
                         ELSE corp_map
         IN  BuildCorpMap(next, Tail(items))

\* _search_corp_map with the scan of lines 123-125 before the exact lookup.
SearchCorpMapScanFirst(corp_map, query) ==
    LET q    == Lower(Strip(query))
        hits == {i \in 1..Len(corp_map) : Contains(q, corp_map[i][1])}
    IN  IF hits # {}
        THEN corp_map[CHOOSE i \in hits : \A j \in hits : i <= j][2]
        ELSE None

\* Lines 117-126.
SearchCorpMap(corp_map, query) ==
    LET q    == Lower(Strip(query))
        hits == {i \in 1..Len(corp_map) : Contains(q, corp_map[i][1])}
    IN  IF q \in Keys(corp_map) THEN DictGet(corp_map, q)
        ELSE IF hits # {}
             THEN corp_map[CHOOSE i \in hits : \A j \in hits : i <= j][2]
             ELSE None

\* Line 85: the cache is used when its age is under seven days.
CacheDays == 7

\* The test of line 85 with <= for <.
CacheFreshInclusive(exists, age) == exists /\ age <= CacheDays

CacheFresh(exists, age) == exists /\ age < CacheDays

(***************************************************************************)
(* Filing fetcher and classifier                                           *)
(***************************************************************************)
\* A filing record: its receipt number and report title.  The other fields
\* (corp_name, stock_code, rcept_dt) are only copied to the sinks.
Filing(rcept_no, report_nm) == [rcept_no |-> rcept_no, report_nm |-> report_nm]

\* What one request to list.json comes to: a JSON body with a status and a
\* list, or an exception (timeout, connection error, HTTP error status, a
\* body that is not JSON).
Response(status, list) == [status |-> status, list |-> list]

\* One turn of the loop in which a failed request drops what was collected.
SearchCategoryReset(all, answer) ==
    IF answer.status = "000" THEN all \o answer.list
    ELSE <<>>

\* Lines 137-159: one turn of the loop over the disclosure types A and B,
\* from all_filings and the answer to the request.
SearchCategory(all, answer) ==
    IF answer.status = "000" THEN all \o answer.list
    ELSE all        \* "013", any other status, or an exception caught

\* Lines 52-59.
VALUE_UP_KEYWORDS ==
    << <<"gi","eop","ga","chi","je","go">>,
       <<"gi","eop","ga","chi","je","go","gye","hoek">>,
       <<"bael","ryu","eop">>,
       <<"v","a","l","u","e"," ","u","p">>,
       <<"v","a","l","u","e","-","u","p">> ,
       <<"gi","eop","ga","chi"," ","je","go">> >>

\* Lines 164-170.
IsValueUpFiling(filing) ==
    LET title == Lower(filing.report_nm)
    IN  \E i \in 1..Len(VALUE_UP_KEYWORDS) :
            Contains(Lower(VALUE_UP_KEYWORDS[i]), title)

\* Classify with a filing that does not match left out of seen.
RECURSIVE ClassifyMatchedOnly(_, _)
ClassifyMatchedOnly(st, filings) ==
    IF filings = <<>> THEN st
    ELSE LET filing   == Head(filings)
             rcept_no == filing.rcept_no
             next     ==
                 IF rcept_no \in st.seen THEN st
                 ELSE IF IsValueUpFiling(filing)
                 THEN [seen        |-> st.seen \cup {rcept_no},
                       new_filings |-> Append(st.new_filings, filing),
                       classified  |-> st.classified \cup {rcept_no}]
                 ELSE [st EXCEPT !.classified = @ \cup {rcept_no}]
         IN  ClassifyMatchedOnly(next, Tail(filings))

\* Classify without the test of line 356.
RECURSIVE ClassifyNoSkip(_, _)
ClassifyNoSkip(st, filings) ==
    IF filings = <<>> THEN st
    ELSE LET filing   == Head(filings)
             rcept_no == filing.rcept_no
             next     ==
                 [seen        |-> st.seen \cup {rcept_no},
                  new_filings |-> IF IsValueUpFiling(filing)
                                  THEN Append(st.new_filings, filing)
                                  ELSE st.new_filings,
                  classified  |-> st.classified \cup {rcept_no}]
         IN  ClassifyNoSkip(next, Tail(filings))

\* Lines 351-365: the loop over the filings of one company.  st holds seen,
\* new_filings and the receipt numbers handed to the classifier.
RECURSIVE Classify(_, _)
Classify(st, filings) ==
    IF filings = <<>> THEN st
    ELSE LET filing   == Head(filings)
             rcept_no == filing.rcept_no
             next     ==
                 IF rcept_no \in st.seen THEN st
                 ELSE [seen        |-> st.seen \cup {rcept_no},
                       new_filings |-> IF IsValueUpFiling(filing)
                                       THEN Append(st.new_filings, filing)
                                       ELSE st.new_filings,
                       classified  |-> st.classified \cup {rcept_no}]
         IN  Classify(next, Tail(filings))

(***************************************************************************)
(* Seen-state file                                                         *)
(***************************************************************************)
\* load_seen that never finds the file.
LoadSeenFresh(file) == {}

\* Lines 183-187.
LoadSeen(file) == IF file.exists THEN file.ids ELSE {}

\* Lines 190-192.
SaveSeen(ids) == [exists |-> TRUE, ids |-> ids]

(***************************************************************************)
(* CSV ledger.  A row is the text of its receipt_no cell, the key the      *)
(* ledger is deduplicated by.  In a DataFrame a cell is <<dtype, text>>:   *)
(* read_csv makes the column int64 when every cell is a run of digits and  *)
(* object (str) otherwise; the new rows hold the str of the filing.        *)
(***************************************************************************)
IsDigits(text) == text # <<>> /\ \A i \in 1..Len(text) : text[i] \in Digits

\* str(int(text)): leading zeros are dropped.
RECURSIVE Canon(_)
Canon(text) ==
    IF Len(text) > 1 /\ Head(text) = "0" THEN Canon(Tail(text)) ELSE text

\* pd.read_csv
ReadCsv(rows) ==
    IF \A i \in 1..Len(rows) : IsDigits(rows[i])
    THEN [i \in 1..Len(rows) |-> <<"int", Canon(rows[i])>>]
    ELSE [i \in 1..Len(rows) |-> <<"str", rows[i]>>]

\* Lines 278-289.
NewRows(new_filings) ==
    [i \in 1..Len(new_filings) |-> <<"str", new_filings[i].rcept_no>>]

\* df.drop_duplicates(subset=["receipt_no"]): the first of equal cells stays.
DropDuplicates(df) ==
    LET keep == {i \in 1..Len(df) : \A j \in 1..(i - 1) : df[j] # df[i]}
        RECURSIVE Pick(_)
        Pick(i) == IF i > Len(df) THEN <<>>
                   ELSE (IF i \in keep THEN <<df[i]>> ELSE <<>>) \o Pick(i + 1)
    IN  Pick(1)

\* df.to_csv
ToCsv(df) == [exists |-> TRUE, rows |-> [i \in 1..Len(df) |-> df[i][2]]]

\* Lines 277-298.
SaveToCsv(file, new_filings) ==
    LET df_new == NewRows(new_filings)
        df_all == IF file.exists
                  THEN DropDuplicates(ReadCsv(file.rows) \o df_new)
                  ELSE df_new
    IN  ToCsv(df_all)

(***************************************************************************)
(* Company list                                                            *)
(***************************************************************************)
\* Line 310: the built-in example list.
BuiltinCompanies ==
    << <<"sam","seong","jeon","ja">>,
       <<"0","0","5","9","3","0">>,
       <<"hyeon","dae","cha">>,
       <<"P","O","S","C","O","hol","ding","seu">> >>

\* Lines 312-318.
RECURSIVE KeepLines(_)
KeepLines(lines) ==
    IF lines = <<>> THEN <<>>
    ELSE LET line == Strip(Head(lines))
         IN  (IF line # <<>> /\ Head(line) # "#" THEN <<line>> ELSE <<>>)
                 \o KeepLines(Tail(lines))

\* Lines 306-318.
LoadCompanies(file) ==
    IF ~file.exists THEN BuiltinCompanies ELSE KeepLines(file.lines)

(***************************************************************************)
(* Bounds and inputs                                                       *)
(***************************************************************************)
\* The most filings the remote returns to one run, over all its requests.
MaxFetched == 3
\* The clock stops ageing the cache file at this many days.
MaxAge == 8
\* The longest bulk directory of ResolverSpec.
MaxItems == 2
\* The longest list handed to save_to_csv in CsvSpec.
MaxNew == 2

SeqsUpTo(S, n) == UNION {[1..k -> S] : k \in 0..n}

A1 == <<"A","1">>
A2 == <<"A","2">>
A3 == <<"A","3">>
\* Receipt numbers that are runs of digits, as DART's are.
N20 == <<"2","0">>
N07 == <<"0","7">>

TitleValueUp == <<"V","a","l","u","e","-","U","p">>
TitleKorean  == <<"gi","eop","ga","chi"," ","je","go","gye","hoek">>
TitleOther   == <<"Q","3">>

\* The filings list.json may return in Spec: A1 never matches the keywords,
\* A3 always does, and A2 does under one of its two titles.
Filings == {Filing(A1, TitleOther), Filing(A2, TitleOther), Filing(A2, TitleKorean),
            Filing(A3, TitleValueUp)}

\* The filings handed to save_to_csv in CsvSpec.
CsvFilings == {Filing(A1, TitleValueUp), Filing(N20, TitleValueUp),
               Filing(N07, TitleValueUp)}

\* One receipt number has one title in the answers to one run.
OneTitle(list) ==
    \A i, j \in 1..Len(list) :
        list[i].rcept_no = list[j].rcept_no => list[i].report_nm = list[j].report_nm

Placeholder == "YOUR_DART_API_KEY_HERE"
ApiKeys == {Placeholder, "key"}

AcmeCorp == <<"A","c","m","e"," ","C","o","r","p">>
BetaInc  == <<"B","e","t","a"," ","I","n","c">>
Samsung  == <<"sam","seong","jeon","ja">>
Code12345 == <<"0","0","0","1","2","3","4","5">>
Code98765 == <<"0","0","0","9","8","7","6","5">>
Code55555 == <<"0","0","0","5","5","5","5","5">>
Code26380 == <<"0","0","1","2","6","3","8","0">>
ItemAcme    == Item(AcmeCorp, Code12345, <<"0","1","2","3","4","5">>)
ItemBeta    == Item(BetaInc, Code98765, <<"0","9","8","7","6","5">>)
ItemSamsung == Item(Samsung, Code26380, <<"0","0","5","9","3","0">>)
\* An unlisted company (no stock code) that shares its name with ItemAcme.
ItemAcme2   == Item(<<" ">> \o AcmeCorp, Code55555, <<>>)
\* An item without a corp_code.
ItemNoCode  == Item(<<"G","a","m","m","a">>, <<>>, <<"7","7","7">>)

Items == {ItemAcme, ItemBeta, ItemAcme2, ItemNoCode}

\* The bulk directories the remote serves in Spec and CacheSpec.
Directories == { <<ItemAcme, ItemBeta>>, <<ItemBeta, ItemSamsung>> }

\* The references get_corp_code is called with in ResolverSpec.
Queries ==
    { <<"a","c","m","e"," ","c","o","r","p">>, <<"0","9","8","7","6","5">>,
      <<"n","o","n","e","x","i","s","t","e","n","t">>, <<" ">> \o BetaInc \o <<" ">>,
      <<"A","C","M","E">>, <<"a">>, <<"7","7","7">>, <<>> }

\* companies.txt, when present.
CompaniesTxt ==
    << <<"#"," ","w","a","t","c","h">>, <<>>, <<" ">> \o AcmeCorp \o <<" ">>,
       <<"0","9","8","7","6","5">>, <<"n","o","n","e","x","i","s","t","e","n","t">> >>

(***************************************************************************)
(* State                                                                   *)
(***************************************************************************)
VARIABLES
    \* files, the clock and the remote
    seenFile,       \* seen_filings.json: [exists, ids]
    cacheFile,      \* corp_codes.json: [exists, corp_map]
    cacheAge,       \* days since corp_codes.json was written
    csvFile,        \* value_up_filings.csv: [exists, rows]
    companiesFile,  \* companies.txt: [exists, lines]
    directory,      \* the bulk directory the remote serves now
    published,      \* the filings list.json may return
    \* the process
    pc,             \* "idle" (no process), "start", "loop", "fetch", "fetchB",
                    \* "saved", "email", "slack"
    outcome,        \* how the last process ended
    DART_API_KEY,   \* line 33, read from the environment of the process
    companies, idx, seen, new_filings, corp_code,
    all_filings,    \* of search_filings; run's `filings` once it returned
    resp,           \* the answer to the request of the last step
    \* history of the current (or last) process
    loaded,         \* what load_seen returned
    fetched,        \* every filing search_filings returned, in order
    classified,     \* receipt numbers handed to is_value_up_filing
    calls,          \* the functions called and requests made
    sunk            \* the sinks that delivered new_filings

files == <<seenFile, cacheFile, csvFile, companiesFile>>
world == <<cacheAge, directory, published>>
proc  == <<pc, outcome, DART_API_KEY, companies, idx, seen, new_filings, corp_code,
           all_filings, resp>>
hist  == <<loaded, fetched, classified, calls, sunk>>
vars  == <<files, world, proc, hist>>

NoResp == Response("", <<>>)

NoCache == [exists |-> FALSE, corp_map |-> <<>>]

\* No file of the program exists before its first run.
InitFiles ==
    /\ seenFile = [exists |-> FALSE, ids |-> {}]
    /\ cacheFile = NoCache
    /\ cacheAge = 0
    /\ csvFile = [exists |-> FALSE, rows |-> <<>>]

InitProc ==
    /\ pc = "idle"
    /\ outcome = "none"
    /\ DART_API_KEY = Placeholder
    /\ companies = <<>>
    /\ idx = 1
    /\ seen = {}
    /\ new_filings = <<>>
    /\ corp_code = None
    /\ all_filings = <<>>
    /\ resp = NoResp
    /\ loaded = {}
    /\ fetched = <<>>
    /\ classified = {}
    /\ calls = {}
    /\ sunk = {}

\* Runs over companies.txt, within the week after the first one.
Init ==
    /\ InitFiles
    /\ InitProc
    /\ companiesFile = [exists |-> TRUE, lines |-> CompaniesTxt]
    /\ directory = <<ItemAcme, ItemBeta>>
    /\ published = Filings

(***************************************************************************)
(* get_corp_code(company): its effect on the cache file and its result     *)
(***************************************************************************)
\* Lines 83-88: a cache file under 7 days old is loaded and searched.
GetCorpCodeCached(company) ==
    /\ CacheFresh(cacheFile.exists, cacheAge)
    /\ corp_code' = SearchCorpMap(cacheFile.corp_map, company)
    /\ UNCHANGED <<cacheFile, cacheAge>>

\* Lines 90-114: the cache file is absent or 7 days old: the bulk directory
\* is downloaded, the mapping built from it, written, and searched.
GetCorpCodeRebuild(company) ==
    /\ ~CacheFresh(cacheFile.exists, cacheAge)
    /\ cacheFile' = [exists |-> TRUE, corp_map |-> BuildCorpMap(<<>>, directory)]
    /\ cacheAge' = 0
    /\ corp_code' = SearchCorpMap(BuildCorpMap(<<>>, directory), company)

(***************************************************************************)
(* run(), one action per step.  A process is started with its environment, *)
(* and an uncaught exception or a termination ends it where it stands.     *)
(***************************************************************************)
\* `python check_value_up.py`: lines 33-41 read the environment.
Launch ==
    /\ pc = "idle"
    /\ DART_API_KEY' \in ApiKeys
    /\ pc' = "start"
    /\ outcome' = "running"
    /\ companies' = <<>> /\ idx' = 1 /\ seen' = {} /\ new_filings' = <<>>
    /\ corp_code' = None /\ all_filings' = <<>> /\ resp' = NoResp
    /\ loaded' = {} /\ fetched' = <<>> /\ classified' = {} /\ calls' = {} /\ sunk' = {}
    /\ UNCHANGED <<files, world>>

\* The process ends: its memory is gone.  new_filings and the history stay
\* as the record of the run.
Exit(how) ==
    /\ pc' = "idle"
    /\ outcome' = how
    /\ companies' = <<>> /\ idx' = 1 /\ seen' = {} /\ corp_code' = None
    /\ all_filings' = <<>> /\ resp' = NoResp
    /\ UNCHANGED <<DART_API_KEY, new_filings>>

\* The test of lines 326-328 moved behind load_seen and save_seen.
RunAbortLate ==
    /\ pc = "start"
    /\ DART_API_KEY = Placeholder
    /\ seenFile' = SaveSeen(LoadSeen(seenFile))
    /\ calls' = calls \cup {"load_seen", "save_seen"}
    /\ Exit("aborted")
    /\ UNCHANGED <<cacheFile, csvFile, companiesFile, world, loaded, fetched, classified,
                   sunk>>

\* Lines 326-328.
RunAbort ==
    /\ pc = "start"
    /\ DART_API_KEY = Placeholder
    /\ Exit("aborted")
    /\ UNCHANGED <<files, world, hist>>

\* Lines 330-339.
RunLoad ==
    /\ pc = "start"
    /\ DART_API_KEY # Placeholder
    /\ companies' = LoadCompanies(companiesFile)
    /\ seen' = LoadSeen(seenFile)
    /\ loaded' = LoadSeen(seenFile)
    /\ new_filings' = <<>>
    /\ idx' = 1
    /\ calls' = calls \cup {"load_companies", "load_seen"}
    /\ pc' = "loop"
    /\ UNCHANGED <<files, world, outcome, DART_API_KEY, corp_code, all_filings, resp,
                   fetched, classified, sunk>>

\* Lines 343-345, once get_corp_code returned corp_code': `continue`, or go
\* on to search_filings.
AfterResolve ==
    /\ all_filings' = <<>> /\ resp' = NoResp
    /\ IF corp_code' = None \/ corp_code' = <<>>
       THEN pc' = "loop" /\ idx' = idx + 1
       ELSE pc' = "fetch" /\ idx' = idx
    /\ UNCHANGED <<seenFile, csvFile, companiesFile, directory, published, outcome,
                   DART_API_KEY, companies, seen, new_filings, loaded, fetched,
                   classified, sunk>>

\* Line 342, the cache file is fresh.
ResolveCached ==
    /\ pc = "loop" /\ idx <= Len(companies)
    /\ GetCorpCodeCached(companies[idx])
    /\ calls' = calls \cup {"get_corp_code"}
    /\ AfterResolve

\* Line 342, the cache file is rebuilt.
ResolveRebuild ==
    /\ pc = "loop" /\ idx <= Len(companies)
    /\ GetCorpCodeRebuild(companies[idx])
    /\ calls' = calls \cup {"get_corp_code", "corpCode.xml"}
    /\ AfterResolve

\* Lines 342, 93-99: the download or the parse raises; nothing in
\* get_corp_code or run catches it.
ResolveRaises ==
    /\ pc = "loop" /\ idx <= Len(companies)
    /\ ~CacheFresh(cacheFile.exists, cacheAge)
    /\ Exit("error")
    /\ calls' = calls \cup {"get_corp_code", "corpCode.xml"}
    /\ UNCHANGED <<files, world, loaded, fetched, classified, sunk>>

\* What a request may come to in a run that fetched `before` so far: status
\* 000 with a list, 013 (no results), another status, or an exception.
Answers(before) ==
    {Response("000", l) : l \in {m \in SeqsUpTo(published, MaxFetched - Len(before)) :
                                     OneTitle(before \o m)}}
        \cup {Response("013", <<>>), Response("020", <<>>), Response("raise", <<>>)}

\* Lines 348, 135-159: search_filings asks for disclosure type A.
RequestA ==
    /\ pc = "fetch"
    /\ \E answer \in Answers(fetched) :
           /\ resp' = answer
           /\ all_filings' = SearchCategory(<<>>, answer)
    /\ calls' = calls \cup {"search_filings", "list.json A"}
    /\ pc' = "fetchB"
    /\ UNCHANGED <<files, world, outcome, DART_API_KEY, companies, idx, seen,
                   new_filings, corp_code, loaded, fetched, classified, sunk>>

\* Lines 137-161, 349-365: search_filings asks for disclosure type B and
\* returns all_filings; run goes through the filings.
RequestB ==
    /\ pc = "fetchB"
    /\ \E answer \in Answers(fetched \o all_filings) :
           LET filings == SearchCategory(all_filings, answer)
               st      == Classify([seen |-> seen, new_filings |-> new_filings,
                                    classified |-> classified], filings)
           IN  /\ resp' = answer
               /\ all_filings' = filings
               /\ seen' = st.seen
               /\ new_filings' = st.new_filings
               /\ classified' = st.classified
               /\ fetched' = fetched \o filings
    /\ calls' = calls \cup {"list.json B"}
    /\ idx' = idx + 1
    /\ pc' = "loop"
    /\ UNCHANGED <<files, world, outcome, DART_API_KEY, companies, corp_code, loaded, sunk>>

\* Line 367.
RunSaveSeen ==
    /\ pc = "loop" /\ idx > Len(companies)
    /\ seenFile' = SaveSeen(seen)
    /\ calls' = calls \cup {"save_seen"}
    /\ pc' = "saved"
    /\ all_filings' = <<>> /\ resp' = NoResp
    /\ UNCHANGED <<cacheFile, csvFile, companiesFile, world, outcome, DART_API_KEY, companies,
                   idx, seen, new_filings, corp_code, loaded, fetched, classified, sunk>>

\* Lines 374-377.
RunNoNew ==
    /\ pc = "saved"
    /\ new_filings = <<>>
    /\ Exit("done")
    /\ UNCHANGED <<files, world, hist>>

\* Lines 369-371, 277-299: save_to_csv writes the ledger.
SinkCsv ==
    /\ pc = "saved"
    /\ new_filings # <<>>
    /\ csvFile' = SaveToCsv(csvFile, new_filings)
    /\ calls' = calls \cup {"save_to_csv"}
    /\ sunk' = sunk \cup {"csv"}
    /\ pc' = "email"
    /\ UNCHANGED <<seenFile, cacheFile, companiesFile, world, outcome, DART_API_KEY, companies,
                   idx, seen, new_filings, corp_code, all_filings, resp, loaded, fetched,
                   classified>>

\* Lines 291-298: read_csv or to_csv raises (the ledger is locked, unreadable
\* or not a CSV table); nothing in save_to_csv or run catches it.
SinkCsvRaises ==
    /\ pc = "saved"
    /\ new_filings # <<>>
    /\ calls' = calls \cup {"save_to_csv"}
    /\ Exit("error")
    /\ UNCHANGED <<files, world, loaded, fetched, classified, sunk>>

\* Lines 372, 199-247: send_email returns at once when the settings of lines
\* 36-38 are incomplete (configured is read here, where alone it is used);
\* an SMTP failure is caught and logged.  The rows of lines 207-216 read
\* fields (corp_name, report_nm, rcept_dt) that every item of list.json has.
SinkEmail ==
    /\ pc = "email"
    /\ calls' = calls \cup {"send_email"}
    /\ \E configured \in BOOLEAN, smtp \in {"sent", "raise"} :
           sunk' = IF configured /\ smtp = "sent" THEN sunk \cup {"email"} ELSE sunk
    /\ pc' = "slack"
    /\ UNCHANGED <<files, world, outcome, DART_API_KEY, companies, idx, seen, new_filings,
                   corp_code, all_filings, resp, loaded, fetched, classified>>

\* Lines 373-377, 250-274: send_slack returns at once without the webhook of
\* line 41; a failed post is caught and logged.
SinkSlack ==
    /\ pc = "slack"
    /\ calls' = calls \cup {"send_slack"}
    /\ \E configured \in BOOLEAN, post \in {"sent", "raise"} :
           sunk' = IF configured /\ post = "sent" THEN sunk \cup {"slack"} ELSE sunk
    /\ Exit("done")
    /\ UNCHANGED <<files, world, loaded, fetched, classified>>

\* The process is terminated between two steps.
Kill ==
    /\ pc # "idle"
    /\ Exit("killed")
    /\ UNCHANGED <<files, world, hist>>

Next ==
    \/ Launch \/ RunAbort \/ RunLoad
    \/ ResolveCached \/ ResolveRebuild \/ ResolveRaises
    \/ RequestA \/ RequestB \/ RunSaveSeen \/ RunNoNew
    \/ SinkCsv \/ SinkCsvRaises \/ SinkEmail \/ SinkSlack
    \/ Kill

Spec == Init /\ [][Next]_vars

(***************************************************************************)
(* CacheSpec: runs over the built-in company list while days pass and the  *)
(* remote changes its bulk directory.                                      *)
(***************************************************************************)
\* A day passes (line 84 reads the age of the cache file off the clock).
Tick ==
    /\ cacheFile.exists
    /\ cacheAge < MaxAge
    /\ cacheAge' = cacheAge + 1
    /\ UNCHANGED <<files, directory, published, proc, hist>>

\* The remote publishes another bulk directory.
DirectoryChanges ==
    /\ directory' \in Directories \ {directory}
    /\ UNCHANGED <<files, cacheAge, published, proc, hist>>

CacheInit ==
    /\ InitFiles
    /\ InitProc
    /\ companiesFile = [exists |-> FALSE, lines |-> <<>>]
    /\ directory \in Directories
    /\ published = {Filing(A1, TitleOther), Filing(A3, TitleValueUp)}

CacheNext == Next \/ Tick \/ DirectoryChanges

CacheSpec == CacheInit /\ [][CacheNext]_vars

(***************************************************************************)
(* ResolverSpec: get_corp_code called on its own, over every bulk          *)
(* directory of up to MaxItems items.                                      *)
(***************************************************************************)
ResolverInit ==
    /\ InitFiles
    /\ InitProc
    /\ companiesFile = [exists |-> FALSE, lines |-> <<>>]
    /\ directory \in SeqsUpTo(Items, MaxItems)
    /\ published = {}

\* get_corp_code(company); companies holds the argument.
CallGetCorpCode ==
    /\ pc = "idle"
    /\ \E company \in Queries :
           /\ companies' = <<company>>
           /\ \/ GetCorpCodeCached(company)
              \/ GetCorpCodeRebuild(company)
    /\ calls' = calls \cup {"get_corp_code"}
    /\ UNCHANGED <<seenFile, csvFile, companiesFile, directory, published, pc, outcome,
                   DART_API_KEY, idx, seen, new_filings, all_filings, resp, loaded,
                   fetched, classified, sunk>>

ResolverNext == CallGetCorpCode

ResolverSpec == ResolverInit /\ [][ResolverNext]_vars

(***************************************************************************)
(* CsvSpec: save_to_csv called on its own with lists of filings.           *)
(***************************************************************************)
\* save_to_csv(list); new_filings holds the argument.
CallSaveToCsv ==
    /\ pc = "idle"
    /\ \E list \in SeqsUpTo(CsvFilings, MaxNew) :
           /\ list # <<>>
           /\ new_filings' = list
           /\ csvFile' = SaveToCsv(csvFile, list)
    /\ calls' = calls \cup {"save_to_csv"}
    /\ UNCHANGED <<seenFile, cacheFile, companiesFile, world, pc, outcome, DART_API_KEY,
                   companies, idx, seen, corp_code, all_filings, resp, loaded, fetched,
                   classified, sunk>>

CsvNext == CallSaveToCsv

CsvSpec == Init /\ [][CsvNext]_vars

(***************************************************************************)
(* Properties                                                              *)
(***************************************************************************)
\* The persisted Seen Set.
Persisted == IF seenFile.exists THEN seenFile.ids ELSE {}

RcptNosOf(list) == {list[i].rcept_no : i \in 1..Len(list)}

SinkCalls == {"save_to_csv", "send_email", "send_slack"}

\* C1: the CSV ledger never holds two rows with the same receipt number, so
\* its row count is the number of distinct receipt numbers written to it.
C1_LedgerReceiptsUnique ==
    csvFile.exists =>
        \A i, j \in 1..Len(csvFile.rows) : i # j => csvFile.rows[i] # csvFile.rows[j]

\* C2: no step removes a receipt number from the persisted Seen Set, however
\* the run ends, and a run that finds no seen-state file starts from the
\* empty set.
C2_SeenSetGrows ==
    [][ /\ Persisted \subseteq Persisted'
        /\ seenFile.exists => seenFile'.exists
        /\ (pc = "start" /\ pc' = "loop" /\ ~seenFile.exists) => loaded' = {} /\ seen' = {}
        /\ (pc = "start" /\ pc' = "loop" /\ seenFile.exists) => loaded' = seenFile.ids ]_vars

\* A run ended that had loaded a non-empty Seen Set and persisted a larger one.
C2_Witness ==
    /\ outcome = "done"
    /\ loaded # {}
    /\ loaded \subseteq Persisted /\ loaded # Persisted

\* The places in fetched of the filings a run must collect: not in the loaded
\* Seen Set, matching the classifier, the first with their receipt number.
NewMatchPlaces ==
    {i \in 1..Len(fetched) :
        /\ fetched[i].rcept_no \notin loaded
        /\ IsValueUpFiling(fetched[i])
        /\ \A j \in 1..(i - 1) : fetched[j].rcept_no # fetched[i].rcept_no}

\* C3: when a run completes normally, new_filings are exactly the fetched
\* filings, in order, that are not in the loaded Seen Set and match the
\* classifier, one per receipt number, and the persisted Seen Set is the
\* loaded one united with the receipt numbers of every fetched filing.
C3_RunCollectsAndPersists ==
    outcome = "done" =>
        /\ Len(new_filings) = Cardinality(NewMatchPlaces)
        /\ \A i \in NewMatchPlaces :
               new_filings[Cardinality({j \in NewMatchPlaces : j <= i})] = fetched[i]
        /\ seenFile = [exists |-> TRUE, ids |-> loaded \cup RcptNosOf(fetched)]

\* Seen Set {A1}, fetched A1, A2, A3 of which only A3 matches: new_filings is
\* A3 alone and {A1, A2, A3} is persisted.
C3_Witness ==
    /\ outcome = "done"
    /\ loaded = {A1}
    /\ fetched = <<Filing(A1, TitleOther), Filing(A2, TitleOther), Filing(A3, TitleValueUp)>>
    /\ new_filings = <<Filing(A3, TitleValueUp)>>
    /\ seenFile.ids = {A1, A2, A3}

\* C4: while a run goes through its filings, nothing in the persisted Seen
\* Set is handed to the classifier or collected as a new match; a run whose
\* fetched filings are all in the persisted Seen Set collects nothing, and a
\* run that collected nothing calls no sink.
C4_SeenNeverReclassified ==
    /\ pc \in {"loop", "fetch", "fetchB"} =>
           /\ classified \cap Persisted = {}
           /\ RcptNosOf(new_filings) \cap Persisted = {}
           /\ RcptNosOf(fetched) \subseteq Persisted => new_filings = <<>>
    /\ new_filings = <<>> => calls \cap SinkCalls = {} /\ sunk = {}

\* A later run fetched A2, persisted as seen and never written to the
\* ledger, under a title the classifier matches, and collected nothing.
C4_Witness ==
    /\ outcome = "done"
    /\ A2 \in loaded
    /\ fetched = <<Filing(A2, TitleKorean)>>
    /\ IsValueUpFiling(fetched[1])
    /\ new_filings = <<>>
    /\ calls \cap SinkCalls = {}
    /\ ~csvFile.exists

\* C5: a run that called the CSV sink and was not terminated went on to call
\* the email and the webhook sink and completed normally.
C5_SinksIsolated ==
    (pc = "idle" /\ outcome # "killed" /\ "save_to_csv" \in calls) =>
        /\ outcome = "done"
        /\ SinkCalls \subseteq calls

\* C6: once a process has ended, every new match of its run that is in the
\* persisted Seen Set was delivered by a sink.
C6_SeenOnlyIfDelivered ==
    pc = "idle" =>
        \A i \in 1..Len(new_filings) :
            new_filings[i].rcept_no \in Persisted => sunk # {}

\* C7: a process started with the placeholder key ends at its first step
\* (or is terminated) having called nothing and loaded nothing, with the
\* seen-state file, the identifier cache and the ledger unchanged and no
\* sink invoked.
C7_PlaceholderKeyAborts ==
    [][ (pc = "start" /\ DART_API_KEY = Placeholder) =>
            /\ pc' = "idle"
            /\ outcome' \in {"aborted", "killed"}
            /\ UNCHANGED <<seenFile, cacheFile, cacheAge, csvFile>>
            /\ calls' = {} /\ sunk' = {}
            /\ loaded' = {} /\ companies' = <<>> /\ fetched' = <<>> ]_vars

\* A run aborted on the placeholder key with every file of earlier runs there.
C7_Witness ==
    /\ outcome = "aborted"
    /\ DART_API_KEY = Placeholder
    /\ seenFile.exists /\ seenFile.ids # {}
    /\ cacheFile.exists
    /\ csvFile.exists
    /\ calls = {}

\* The filings one answer contributes.
Got(answer) == IF answer.status = "000" THEN answer.list ELSE <<>>

\* C8: whatever the request for type A comes to, search_filings goes on to
\* type B with A's filings or none; whatever the request for B comes to, it
\* returns A's filings followed by B's, each empty unless its status is 000;
\* neither step raises, run goes on to the next company, and a run that
\* completes has persisted the Seen Set.
C8_CategoriesFailAlone ==
    [][ /\ (pc = "fetch" /\ pc' # "idle") =>
               /\ pc' = "fetchB"
               /\ all_filings' = Got(resp')
        /\ (pc = "fetchB" /\ pc' # "idle") =>
               /\ pc' = "loop" /\ idx' = idx + 1
               /\ all_filings' = Got(resp) \o Got(resp')
               /\ fetched' = fetched \o all_filings'
        /\ pc \in {"fetch", "fetchB"} => outcome' \in {"running", "killed"}
        /\ outcome' = "done" => "save_seen" \in calls' /\ seenFile'.exists ]_vars

\* The request for type B raised after the one for type A returned filings,
\* and run is back at its loop with companies left.
C8_Witness ==
    /\ pc = "loop"
    /\ resp.status = "raise"
    /\ all_filings # <<>>
    /\ idx <= Len(companies)

\* The keys of a directory item in the mapping.
NameKey(item) == Lower(Strip(item.corp_name))

StockKey(item) == Lower(Strip(item.stock_code))

HasCode(item) == Strip(item.corp_code) # <<>>

\* The corp_code of the last item of the directory, among those with a
\* corp_code, whose name or stock code gives the key.
LastCode(key) ==
    LET with == {i \in 1..Len(directory) :
                    /\ HasCode(directory[i])
                    /\ key \in {NameKey(directory[i]), StockKey(directory[i])}}
        last == CHOOSE i \in with : \A j \in with : j <= i
    IN  Strip(directory[last].corp_code)

\* The lookup policy: exact key, else first key containing it, else None.
Policy(corp_map, reference) ==
    LET q     == Lower(Strip(reference))
        exact == {i \in 1..Len(corp_map) : corp_map[i][1] = q}
        sub   == {i \in 1..Len(corp_map) : Contains(q, corp_map[i][1])}
    IN  IF exact # {} THEN corp_map[CHOOSE i \in exact : TRUE][2]
        ELSE IF sub # {} THEN corp_map[CHOOSE i \in sub : \A j \in sub : i <= j][2]
        ELSE None

\* What get_corp_code returned follows the lookup policy.
ResolveFollowsPolicy ==
    (cacheFile.exists /\ companies # <<>>) =>
        corp_code = Policy(cacheFile.corp_map, companies[1])

\* C9 as written: after a rebuild, the name and the stock code of every
\* directory item (with a corp_code) resolve to that item's corp_code, and
\* resolve follows the lookup policy.
C9_EveryEntryResolves ==
    /\ cacheFile.exists =>
           \A i \in 1..Len(directory) :
               HasCode(directory[i]) =>
                   /\ SearchCorpMap(cacheFile.corp_map, NameKey(directory[i]))
                          = Strip(directory[i].corp_code)
                   /\ SearchCorpMap(cacheFile.corp_map, StockKey(directory[i]))
                          = Strip(directory[i].corp_code)
    /\ ResolveFollowsPolicy

\* C9, amended: after a rebuild, the name and the stock code of every
\* directory item with a corp_code resolve to the corp_code of the last such
\* item that has that name or stock code (its own when no later item shares
\* the key), and resolve follows the lookup policy.
C9_LastEntryResolves ==
    /\ cacheFile.exists =>
           \A i \in 1..Len(directory) :
               HasCode(directory[i]) =>
                   /\ SearchCorpMap(cacheFile.corp_map, NameKey(directory[i]))
                          = LastCode(NameKey(directory[i]))
                   /\ SearchCorpMap(cacheFile.corp_map, StockKey(directory[i]))
                          = LastCode(StockKey(directory[i]))
    /\ ResolveFollowsPolicy

\* The mapping rebuilt from Acme Corp and Beta Inc: "nonexistent" was not
\* found, "acme corp" and "098765" give the two corp_codes.
C9_Witness ==
    /\ directory = <<ItemAcme, ItemBeta>>
    /\ cacheFile.exists
    /\ companies = << <<"n","o","n","e","x","i","s","t","e","n","t">> >>
    /\ corp_code = None
    /\ SearchCorpMap(cacheFile.corp_map, <<"a","c","m","e"," ","c","o","r","p">>) = Code12345
    /\ SearchCorpMap(cacheFile.corp_map, <<"0","9","8","7","6","5">>) = Code98765

\* C10: a call of get_corp_code that finds the cache file absent or 7 days
\* old either replaces it with the mapping built from the bulk directory
\* alone and returns what that mapping gives, or ends the run with an error,
\* the files as they were, save_seen and every sink uncalled.
C10_StaleCacheRebuilt ==
    [][ ( /\ ~cacheFile.exists \/ cacheAge >= 7
          /\ pc = "loop" /\ idx <= Len(companies)
          /\ <<pc, idx>>' # <<pc, idx>>
          /\ outcome' # "killed" ) =>
            \/ /\ cacheFile' = [exists |-> TRUE, corp_map |-> BuildCorpMap(<<>>, directory)]
               /\ cacheAge' = 0
               /\ corp_code' = Policy(BuildCorpMap(<<>>, directory), companies[idx])
               /\ outcome' = "running"
            \/ /\ outcome' = "error" /\ pc' = "idle"
               /\ UNCHANGED <<seenFile, cacheFile, csvFile, sunk>>
               /\ calls' \cap ({"save_seen"} \cup SinkCalls) = {} ]_vars

\* A run that had loaded a Seen Set of earlier runs rebuilt the cache from
\* the directory with Samsung in it and resolved a company from it.
C10_Witness ==
    /\ outcome = "running"
    /\ loaded # {}
    /\ "corpCode.xml" \in calls
    /\ cacheAge = 0
    /\ cacheFile.corp_map = BuildCorpMap(<<>>, directory)
    /\ corp_code = Code26380

====
